---- MODULE Spec2Model ----
(***************************************************************************)
(* Model of src/main.py: the Mattermost channel-membership snapshot        *)
(* script.  One invocation of main() logs in, enumerates teams, channels   *)
(* and channel members (paginated), resolves statuses and usernames in     *)
(* two bulk calls, provisions the TimescaleDB table and inserts the        *)
(* records in batches.  The chat platform and the database are the         *)
(* environment: each call either succeeds or raises, chosen                *)
(* nondeterministically.                                                   *)
(***************************************************************************)
EXTENDS Integers, Sequences, FiniteSets, TLC

(* ---------------- bounds of the model ---------------- *)
MaxBatch == 3      \* BATCH_SIZE is drawn from 1..MaxBatch
MaxRuns == 2       \* number of successive invocations of main()
Period == 8        \* clock ticks between the starts of two invocations
MaxCalls == 12     \* enumCalls stops counting here (a run makes at most 8)

(* ---------------- program constants ---------------- *)
per_page == 200

(* ---------------- the chat platform's data ---------------- *)
Absent == "<absent>"    \* a key that the channel dict does not have

Teams == << [id |-> "tA", name |-> "alpha"], [id |-> "tB", name |-> "beta"] >>

TeamChannels(team_id) ==
    IF team_id = "tA"
    THEN << [id |-> "c1", display_name |-> "General", name |-> "general"],
            [id |-> "c2", display_name |-> "",        name |-> "town"] >>
    ELSE << [id |-> "c3", display_name |-> Absent,    name |-> Absent] >>

\* the pages of member dicts (by user_id) the server returns for a channel;
\* every page past the last one is empty
ChannelPages(channel_id) ==
    CASE channel_id = "c1" -> << <<"u1", "u2">>, <<"u2">> >>
      [] channel_id = "c2" -> << >>
      [] channel_id = "c3" -> << <<"u2", "u3">> >>

UserIds == {"u1", "u2", "u3"}

\* what the two bulk lookups return when they succeed: u2 has no user entry
\* (deleted between enumeration and resolution), u3 has no status entry
UsersDirectory == [u \in {"u1", "u3"} |-> IF u = "u1" THEN "alice" ELSE "carol"]
StatusDirectory == [u \in {"u1", "u2"} |-> IF u = "u1" THEN "online" ELSE "away"]

(* ---------------- generic helpers ---------------- *)
Range(s) == {s[i] : i \in 1..Len(s)}

\* all orders in which the elements of a finite set can be iterated
Orders(S) == {s \in [1..Cardinality(S) -> S] : Range(s) = S}

\* a lookup that answers the empty string for a missing key
Get_EmptyDefault(map, key, default) == IF key \in DOMAIN map THEN map[key] ELSE ""

\* dict.get(key, default)
Get(map, key, default) == IF key \in DOMAIN map THEN map[key] ELSE default

EmptyMap == [u \in {} |-> ""]

VARIABLES
    pc,                        \* position of main()
    run,                       \* number of the current invocation
    clock,                     \* wall clock
    BATCH_SIZE,
    teams, now, ti, ci, channels,
    page, all_members,         \* locals of get_all_channel_members
    all_user_ids_globally, records_to_process_later,
    statuses_list, user_id_to_username, user_id_to_status,
    processed_count,
    db,                        \* committed schema of the database
    tx,                        \* schema as seen by the connection's transaction
    txFailed,                  \* the transaction is in the aborted state
    durable,                   \* rows committed by this invocation
    uncommitted,               \* rows inserted and not yet committed
    \* observations of the run
    failedTeams, failedChannels,
    statusCalls, identityCalls,
    provErrors, provResult, provStart,
    insertAttempts, failedInsert, writerCommits,
    enumCalls, logoutCalls,
    abortedAt,                 \* where the run was aborted, if it was
    fetches,                   \* the get_channel_members calls of the current channel
    lastCall,                  \* the last chat-platform call and whether a sleep followed
    undelayed                  \* the calls issued with no sleep after the call before

progVars == << pc, run, clock, BATCH_SIZE, teams, now, ti, ci, channels, page,
               all_members, all_user_ids_globally, records_to_process_later,
               statuses_list, user_id_to_username, user_id_to_status,
               processed_count >>
dbVars == << db, tx, txFailed, durable, uncommitted >>
obsVars == << failedTeams, failedChannels, statusCalls, identityCalls,
              provErrors, provResult, provStart, insertAttempts, failedInsert,
              writerCommits, enumCalls, logoutCalls, abortedAt,
              fetches, lastCall, undelayed >>
vars == << progVars, dbVars, obsVars >>

collectVars == << teams, now, ti, ci, channels, page, all_members,
                  all_user_ids_globally, records_to_process_later >>
resolveVars == << statuses_list, user_id_to_username, user_id_to_status >>
collectObs == << failedTeams, failedChannels, enumCalls >>
resolveObs == << statusCalls, identityCalls >>
provObs == << provErrors, provResult, provStart >>
writeObs == << insertAttempts, failedInsert, writerCommits >>
callObs == << fetches, lastCall, undelayed >>

NoCall == [call |-> "none", outcome |-> "none", slept |-> FALSE]

EmptySchema == [ext |-> FALSE, table |-> FALSE, hyper |-> FALSE,
                compress |-> FALSE, policies |-> 0]

\* the state of one invocation right after the process starts
FreshRun ==
    /\ pc = "login"
    /\ teams = << >> /\ now = -1 /\ ti = 1 /\ ci = 1 /\ channels = << >>
    /\ page = 0 /\ all_members = << >>
    /\ all_user_ids_globally = {} /\ records_to_process_later = << >>
    /\ statuses_list = EmptyMap
    /\ user_id_to_username = EmptyMap /\ user_id_to_status = EmptyMap
    /\ processed_count = 0
    /\ txFailed = FALSE /\ durable = << >> /\ uncommitted = << >>
    /\ failedTeams = {} /\ failedChannels = {}
    /\ statusCalls = << >> /\ identityCalls = << >>
    /\ provErrors = {} /\ provResult = "none" /\ provStart = "none"
    /\ insertAttempts = 0 /\ failedInsert = 0 /\ writerCommits = 0
    /\ enumCalls = 0 /\ logoutCalls = 0 /\ abortedAt = "none"
    /\ fetches = << >> /\ lastCall = NoCall /\ undelayed = {}

Init ==
    /\ FreshRun
    /\ run = 1
    /\ clock = 0
    /\ BATCH_SIZE \in 1..MaxBatch
    /\ db = EmptySchema
    /\ tx = EmptySchema

\* one more enumeration call observed
CountCall(n) == IF n < MaxCalls THEN n + 1 ELSE n

\* a chat-platform call is issued: note it when no sleep followed the last one
IssueCall(call) ==
    undelayed' = IF lastCall.call # "none" /\ ~lastCall.slept
                 THEN undelayed \cup {<< lastCall.call, lastCall.outcome, call >>}
                 ELSE undelayed

\* an exception that nothing catches ends main(): remember where it was raised
NoteAbort == abortedAt' = IF pc' = "aborted" THEN pc ELSE abortedAt

(* ---------------- collection: main() lines 157-200 ---------------- *)

\* lines 157-167: login, list the teams, take the capture instant
Login ==
    /\ pc = "login"
    /\ \/ /\ teams' = Teams
          /\ now' = clock
          /\ pc' = "team_loop"
       \/ /\ pc' = "aborted"          \* login or get_user_teams raised
          /\ UNCHANGED << teams, now >>
    /\ NoteAbort
    /\ UNCHANGED << run, clock, BATCH_SIZE, ti, ci, channels, page, all_members,
                    all_user_ids_globally, records_to_process_later,
                    resolveVars, processed_count, dbVars, collectObs,
                    resolveObs, provObs, writeObs, logoutCalls,
                    callObs >>

\* where main() goes once the team loop is exhausted (line 202)
AfterCollect == "resolve"

\* a channel-list error that nothing catches
AfterChannelListError_Uncaught == "aborted"

\* lines 176-178: the except clause logs and continues with the next team
AfterChannelListError == "team_loop"

\* lines 169-178: the next team and its channel list
NextTeam ==
    /\ pc = "team_loop"
    /\ IF ti > Len(teams)
       THEN /\ pc' = AfterCollect
            /\ UNCHANGED << ti, ci, channels, collectObs, lastCall, undelayed >>
       ELSE /\ enumCalls' = CountCall(enumCalls)
            /\ IssueCall("channels")
            /\ \/ /\ channels' = TeamChannels(teams[ti].id)
                  /\ ci' = 1
                  /\ pc' = "channel_loop"
                  /\ lastCall' = [call |-> "channels", outcome |-> "ok",
                                  slept |-> FALSE]
                  /\ UNCHANGED << ti, failedTeams, failedChannels >>
               \/ /\ failedTeams' = failedTeams \cup {teams[ti].id}
                  /\ ti' = ti + 1
                  /\ pc' = AfterChannelListError
                  /\ lastCall' = [call |-> "channels", outcome |-> "error",
                                  slept |-> FALSE]
                  /\ UNCHANGED << ci, channels, failedChannels >>
    /\ NoteAbort
    /\ UNCHANGED << run, clock, BATCH_SIZE, teams, now, page, all_members,
                    all_user_ids_globally, records_to_process_later,
                    resolveVars, processed_count, dbVars, resolveObs, provObs,
                    writeObs, logoutCalls, fetches >>

\* line 183: display_name if truthy, else name if the key is present, else 'unknown'
ChannelName(channel) ==
    IF channel.display_name \notin {Absent, ""}
    THEN channel.display_name
    ELSE IF channel.name = Absent THEN "unknown" ELSE channel.name

\* lines 180-186 and 144-146: the next channel, entering get_all_channel_members
NextChannel ==
    /\ pc = "channel_loop"
    /\ IF ci > Len(channels)
       THEN /\ ti' = ti + 1
            /\ pc' = "team_loop"
            /\ UNCHANGED << page, all_members, fetches >>
       ELSE /\ page' = 0
            /\ all_members' = << >>
            /\ fetches' = << >>
            /\ pc' = "fetch"
            /\ UNCHANGED ti
    /\ UNCHANGED << run, clock, BATCH_SIZE, teams, now, ci, channels,
                    all_user_ids_globally, records_to_process_later,
                    resolveVars, processed_count, dbVars, collectObs,
                    resolveObs, provObs, writeObs, logoutCalls, abortedAt,
                    lastCall, undelayed >>

\* the server's answer to get_channel_members(channel_id, page, per_page)
ServerPage(channel_id, p) ==
    IF p + 1 <= Len(ChannelPages(channel_id))
    THEN ChannelPages(channel_id)[p + 1]
    ELSE << >>

\* a timestamp taken when the record is built
RecordTimestamp_Clock == clock

\* the timestamp put into a record (line 196)
RecordTimestamp == now

\* one record per member entry of the listing, repeated ids included
ChannelRecords_PerEntry(order) ==
    [i \in 1..Len(all_members) |->
        [timestamp |-> RecordTimestamp,
         team_id |-> teams[ti].id, team_name |-> teams[ti].name,
         channel_id |-> channels[ci].id,
         channel_name |-> ChannelName(channels[ci]),
         user_id |-> all_members[i]]]

\* one record per element of channel_user_ids, in iteration order (lines 194-197)
ChannelRecords(order) ==
    [i \in 1..Len(order) |->
        [timestamp |-> RecordTimestamp,
         team_id |-> teams[ti].id, team_name |-> teams[ti].name,
         channel_id |-> channels[ci].id,
         channel_name |-> ChannelName(channels[ci]),
         user_id |-> order[i]]]

\* records appended page by page, so that a later failure leaves some behind
RecordsAfterChannelError_Partial(records) == records \o ChannelRecords(all_members)

\* what the except clause of lines 198-200 does with the accumulators
RecordsAfterChannelError(records) == records

\* user ids added to the global set page by page
UserIdsAfterChannelError_Partial(ids) == ids \cup Range(all_members)

\* lines 193 and 198-200: the global set is updated only after the paginator
\* has returned, so the except clause finds it as it was
UserIdsAfterChannelError(ids) == ids

\* a handler that tries the same channel again
ChannelAfterError_Retry(i) == i

\* lines 198-200: continue with the next channel
ChannelAfterError(i) == i + 1

\* a paginator that asks for every other page
NextPage_Skip(p) == p + 2

\* line 152: page += 1
NextPage(p) == p + 1

\* a paginator without its sleep
SleepAfterPage_Removed == FALSE

\* line 153: the paginator sleeps after every non-empty page
SleepAfterPage == TRUE

\* lines 147-154 (one iteration of the paginator) and, when the call raises,
\* the handler of lines 198-200
FetchPage ==
    /\ pc = "fetch"
    /\ enumCalls' = CountCall(enumCalls)
    /\ IssueCall("page")
    /\ fetches' = Append(fetches, [page |-> page, per_page |-> per_page])
    /\ \/ LET members == ServerPage(channels[ci].id, page) IN
          IF members = << >>
          THEN /\ pc' = "collect"                         \* break; return
               /\ lastCall' = [call |-> "page", outcome |-> "empty",
                               slept |-> FALSE]
               /\ UNCHANGED << page, all_members, clock, ci, failedChannels,
                               records_to_process_later,
                               all_user_ids_globally >>
          ELSE /\ all_members' = all_members \o members
               /\ page' = NextPage(page)
               /\ clock' = IF SleepAfterPage THEN clock + 1 ELSE clock
               /\ lastCall' = [call |-> "page", outcome |-> "full",
                               slept |-> SleepAfterPage]
               /\ pc' = "fetch"
               /\ UNCHANGED << ci, failedChannels, records_to_process_later,
                               all_user_ids_globally >>
       \/ /\ failedChannels' = failedChannels \cup {channels[ci].id}
          /\ records_to_process_later' =
                 RecordsAfterChannelError(records_to_process_later)
          /\ all_user_ids_globally' =
                 UserIdsAfterChannelError(all_user_ids_globally)
          /\ ci' = ChannelAfterError(ci)
          /\ pc' = "channel_loop"
          /\ lastCall' = [call |-> "page", outcome |-> "error", slept |-> FALSE]
          /\ UNCHANGED << page, all_members, clock >>
    /\ UNCHANGED << run, BATCH_SIZE, teams, now, ti, channels,
                    resolveVars, processed_count, dbVars,
                    failedTeams, resolveObs, provObs, writeObs, logoutCalls,
                    abortedAt >>

\* lines 187-197: fold the channel's members into the accumulators
CollectChannel ==
    /\ pc = "collect"
    /\ LET channel_user_ids == Range(all_members) IN
       IF channel_user_ids = {}
       THEN UNCHANGED << all_user_ids_globally, records_to_process_later >>
       ELSE /\ all_user_ids_globally' = all_user_ids_globally \cup channel_user_ids
            /\ \E order \in Orders(channel_user_ids) :
                   records_to_process_later' =
                       records_to_process_later \o ChannelRecords(order)
    /\ ci' = ci + 1
    /\ pc' = "channel_loop"
    /\ UNCHANGED << run, clock, BATCH_SIZE, teams, now, ti, channels, page,
                    all_members, resolveVars, processed_count, dbVars, obsVars >>

(* ---------------- resolution: main() lines 202-218 ---------------- *)

\* a lookup that asks only for the ids of the channel enumerated last
user_ids_list_LastChannel == Range(all_members)

\* line 206: the id list handed to both bulk lookups
user_ids_list == all_user_ids_globally

\* the server's answer to a bulk lookup: the entries it has for the ids asked
Lookup(directory, ids) == [u \in (DOMAIN directory) \cap ids |-> directory[u]]

\* a status mapping built as soon as the status lookup returns
StatusMapAfterStatusLookup_Eager(result) == result

\* user_id_to_status once the status lookup has returned: the code builds the
\* mapping only at line 214, after the identity lookup
StatusMapAfterStatusLookup(result) == user_id_to_status

\* where main() goes after the resolution block (line 220)
AfterResolve == "connect"

\* lines 205-210: the guard and the bulk status lookup
ResolveStatus ==
    /\ pc = "resolve"
    /\ IF all_user_ids_globally = {}
       THEN /\ pc' = AfterResolve
            /\ UNCHANGED << clock, resolveVars, statusCalls, lastCall,
                            undelayed >>
       ELSE /\ IssueCall("status")
            /\ \/ /\ statusCalls' = Append(statusCalls,
                                         [ids |-> user_ids_list, ok |-> TRUE])
                  /\ statuses_list' = Lookup(StatusDirectory, user_ids_list)
                  /\ user_id_to_status' =
                         StatusMapAfterStatusLookup(statuses_list')
                  /\ clock' = clock + 1               \* time.sleep(API_DELAY)
                  /\ lastCall' = [call |-> "status", outcome |-> "ok",
                                  slept |-> TRUE]
                  /\ pc' = "resolve_users"
                  /\ UNCHANGED user_id_to_username
               \/ /\ statusCalls' = Append(statusCalls,
                                         [ids |-> user_ids_list, ok |-> FALSE])
                  /\ pc' = AfterResolve                \* except, line 216
                  /\ lastCall' = [call |-> "status", outcome |-> "error",
                                  slept |-> FALSE]
                  /\ UNCHANGED << clock, resolveVars >>
    /\ UNCHANGED << run, BATCH_SIZE, collectVars, processed_count, dbVars,
                    collectObs, identityCalls, provObs, writeObs, logoutCalls,
                    abortedAt, fetches >>

\* lines 211-215: the bulk identity lookup and the two mappings
ResolveUsers ==
    /\ pc = "resolve_users"
    /\ IssueCall("identity")
    /\ \/ /\ identityCalls' = Append(identityCalls,
                                     [ids |-> user_ids_list, ok |-> TRUE])
          /\ user_id_to_username' = Lookup(UsersDirectory, user_ids_list)
          /\ user_id_to_status' = statuses_list
          /\ lastCall' = [call |-> "identity", outcome |-> "ok",
                          slept |-> FALSE]
       \/ /\ identityCalls' = Append(identityCalls,
                                     [ids |-> user_ids_list, ok |-> FALSE])
          /\ lastCall' = [call |-> "identity", outcome |-> "error",
                          slept |-> FALSE]
          /\ UNCHANGED << user_id_to_username, user_id_to_status >>
    /\ pc' = AfterResolve
    /\ UNCHANGED << run, clock, BATCH_SIZE, collectVars, statuses_list,
                    processed_count, dbVars, collectObs, statusCalls, provObs,
                    writeObs, logoutCalls, abortedAt, fetches >>

(* ---------------- the database connection ---------------- *)

\* conn.rollback(): the transaction's view falls back to the committed state
Rollback ==
    /\ tx' = db
    /\ txFailed' = FALSE
    /\ uncommitted' = << >>
    /\ UNCHANGED << db, durable >>

\* a writer that starts without provisioning the schema
AfterConnect_SkipProvision == "write"

\* where main() goes once the connection is open (line 221)
AfterConnect == "prov_ext"

\* line 220: get_pg_conn()
Connect ==
    /\ pc = "connect"
    /\ \/ /\ pc' = AfterConnect
          /\ tx' = db
          /\ txFailed' = FALSE
       \/ /\ pc' = "aborted"
          /\ UNCHANGED << tx, txFailed >>
    /\ NoteAbort
    /\ UNCHANGED << run, clock, BATCH_SIZE, collectVars, resolveVars,
                    processed_count, db, durable, uncommitted, collectObs,
                    resolveObs, provObs, writeObs, logoutCalls,
                    callObs >>

(* ---------------- ensure_table_exists: lines 51-141 ---------------- *)

\* a statement sent inside an aborted transaction always raises
CanCreateHypertable == ~txFailed /\ tx.ext /\ tx.table
CanSetCompression == ~txFailed /\ tx.table /\ tx.hyper
CanAddPolicy == ~txFailed /\ tx.table /\ tx.hyper /\ tx.compress
CanInsert == ~txFailed /\ tx.table

\* lines 56-69: CREATE EXTENSION IF NOT EXISTS; an error is logged and a
\* rollback attempted, whose own failure is logged too
ProvExtension ==
    /\ pc = "prov_ext"
    /\ provStart' = "started"
    /\ \/ /\ tx' = [tx EXCEPT !.ext = TRUE]
          /\ UNCHANGED << db, txFailed, durable, uncommitted, provErrors >>
       \/ /\ provErrors' = provErrors \cup {"ext"}
          /\ \/ Rollback
             \/ /\ txFailed' = TRUE               \* the rollback raised as well
                /\ UNCHANGED << db, tx, durable, uncommitted >>
    /\ pc' = "prov_table"
    /\ UNCHANGED << run, clock, BATCH_SIZE, collectVars, resolveVars,
                    processed_count, collectObs, resolveObs, provResult,
                    writeObs, logoutCalls, abortedAt,
                    callObs >>

\* lines 72-86: CREATE TABLE IF NOT EXISTS; an error is not caught, so it
\* leaves ensure_table_exists and the with-block of line 220 rolls back
ProvTable ==
    /\ pc = "prov_table"
    /\ \/ /\ ~txFailed
          /\ tx' = [tx EXCEPT !.table = TRUE]
          /\ pc' = "prov_hyper"
          /\ UNCHANGED << db, txFailed, durable, uncommitted, provErrors,
                          provResult >>
       \/ /\ provErrors' = provErrors \cup {"table"}
          /\ provResult' = "raised"
          /\ pc' = "aborted"
          /\ Rollback
    /\ NoteAbort
    /\ UNCHANGED << run, clock, BATCH_SIZE, collectVars, resolveVars,
                    processed_count, collectObs, resolveObs, provStart,
                    writeObs, logoutCalls,
                    callObs >>

\* a handler that logs every create_hypertable error and goes on
HypertableErrorIsFatal_Never(kind) == FALSE

\* lines 95-102: which errors of create_hypertable are re-raised
HypertableErrorIsFatal(kind) == kind # "already"

\* lines 89-102: create_hypertable(..., if_not_exists => TRUE)
ProvHypertable ==
    /\ pc = "prov_hyper"
    /\ \/ /\ CanCreateHypertable
          /\ tx' = [tx EXCEPT !.hyper = TRUE]
          /\ pc' = "prov_compress"
          /\ UNCHANGED << db, txFailed, durable, uncommitted, provErrors,
                          provResult >>
       \/ \E kind \in {"already", "other"} :
             /\ kind = "already" => (~txFailed /\ tx.hyper)
             /\ provErrors' = provErrors \cup
                    {IF kind = "already" THEN "hyper_already" ELSE "hyper"}
             /\ IF HypertableErrorIsFatal(kind)
                THEN /\ Rollback              \* line 101, then raise
                     /\ provResult' = "raised"
                     /\ pc' = "aborted"
                ELSE /\ txFailed' = TRUE      \* logged, no rollback
                     /\ pc' = "prov_compress"
                     /\ UNCHANGED << db, tx, durable, uncommitted, provResult >>
    /\ NoteAbort
    /\ UNCHANGED << run, clock, BATCH_SIZE, collectVars, resolveVars,
                    processed_count, collectObs, resolveObs, provStart,
                    writeObs, logoutCalls,
                    callObs >>

\* lines 107-121: ALTER TABLE ... SET (timescaledb.compress ...)
ProvCompress ==
    /\ pc = "prov_compress"
    /\ \/ /\ CanSetCompression
          /\ tx' = [tx EXCEPT !.compress = TRUE]
          /\ UNCHANGED << db, txFailed, durable, uncommitted, provErrors >>
       \/ /\ provErrors' = provErrors \cup {"compress"}
          /\ Rollback                         \* line 121
    /\ pc' = "prov_policy"
    /\ UNCHANGED << run, clock, BATCH_SIZE, collectVars, resolveVars,
                    processed_count, collectObs, resolveObs, provResult,
                    provStart, writeObs, logoutCalls, abortedAt,
                    callObs >>

\* add_compression_policy without if_not_exists
PoliciesAfterAdd_Duplicate(n) == n + 1

\* add_compression_policy(..., if_not_exists => TRUE) on success
PoliciesAfterAdd(n) == IF n = 0 THEN 1 ELSE n

\* where main() goes when ensure_table_exists returns (line 222)
AfterProvision == "write"

\* lines 125-141: add_compression_policy, then conn.commit(); committing a
\* transaction that an error has left aborted is a rollback
ProvPolicy ==
    /\ pc = "prov_policy"
    /\ \/ /\ CanAddPolicy
          /\ db' = [tx EXCEPT !.policies = PoliciesAfterAdd(tx.policies)]
          /\ tx' = db'
          /\ UNCHANGED << txFailed, durable, uncommitted, provErrors >>
       \/ /\ ~txFailed /\ tx.policies > 0     \* "already exists": logged
          /\ provErrors' = provErrors \cup {"policy_already"}
          /\ Rollback                         \* commit of an aborted transaction
       \/ /\ provErrors' = provErrors \cup {"policy"}
          /\ Rollback                         \* line 139; line 141 commits nothing
    /\ provResult' = "returned"
    /\ pc' = AfterProvision
    /\ UNCHANGED << run, clock, BATCH_SIZE, collectVars, resolveVars,
                    processed_count, collectObs, resolveObs, provStart,
                    writeObs, logoutCalls, abortedAt,
                    callObs >>

(* ---------------- the batched writer: lines 222-247 ---------------- *)

\* lines 226-234: the row inserted for a collected record
Row(record) ==
    [timestamp |-> record.timestamp,
     team_id |-> record.team_id, team_name |-> record.team_name,
     channel_id |-> record.channel_id, channel_name |-> record.channel_name,
     user_id |-> record.user_id,
     username |-> Get(user_id_to_username, record.user_id, "unknown"),
     status |-> Get(user_id_to_status, record.user_id, "unknown")]

\* a commit after every second batch only
BatchCommitDue_EveryOther(count) == count % (2 * BATCH_SIZE) = 0

\* line 236: commit after this insert?
BatchCommitDue(count) == count % BATCH_SIZE = 0

\* a final commit that does not look at the remainder
FinalCommitDue_Always(count) == count > 0

\* line 240: commit the remainder after the loop?
FinalCommitDue(count) == count > 0 /\ count % BATCH_SIZE # 0

\* a with-block that commits the open batch although the INSERT raised
DurableAfterInsertError_Commit == durable \o uncommitted

\* what the with-block of line 220 does with the rows of the open batch when
\* an INSERT raises: the connection's __exit__ rolls back
DurableAfterInsertError == durable

\* a main() that logs out in a finally clause
AfterInsertError_Finally == "logout"

\* lines 220-246: nothing catches the error of an INSERT, it leaves the
\* with-block and main(), and line 246 is not reached
AfterInsertError == "aborted"

\* lines 225-238: one iteration of the insert loop
Insert ==
    /\ pc = "write"
    /\ processed_count < Len(records_to_process_later)
    /\ insertAttempts' = insertAttempts + 1
    /\ \/ /\ CanInsert
          /\ processed_count' = processed_count + 1
          /\ LET rows == Append(uncommitted,
                                Row(records_to_process_later[processed_count']))
             IN IF BatchCommitDue(processed_count')
                THEN /\ durable' = durable \o rows
                     /\ uncommitted' = << >>
                     /\ writerCommits' = writerCommits + 1
                ELSE /\ uncommitted' = rows
                     /\ UNCHANGED << durable, writerCommits >>
          /\ pc' = "write"
          /\ UNCHANGED << db, tx, txFailed, failedInsert >>
       \/ /\ failedInsert' = processed_count + 1
          /\ durable' = DurableAfterInsertError
          /\ uncommitted' = << >>
          /\ tx' = db
          /\ txFailed' = FALSE
          /\ pc' = AfterInsertError
          /\ UNCHANGED << db, processed_count, writerCommits >>
    /\ NoteAbort
    /\ UNCHANGED << run, clock, BATCH_SIZE, collectVars, resolveVars,
                    collectObs, resolveObs, provObs, logoutCalls,
                    callObs >>

\* lines 240-244 and the normal exit of the with-block (which commits)
FinishWrite ==
    /\ pc = "write"
    /\ processed_count = Len(records_to_process_later)
    /\ writerCommits' = IF FinalCommitDue(processed_count)
                        THEN writerCommits + 1 ELSE writerCommits
    /\ durable' = durable \o uncommitted
    /\ uncommitted' = << >>
    /\ pc' = "logout"
    /\ UNCHANGED << run, clock, BATCH_SIZE, collectVars, resolveVars,
                    processed_count, db, tx, txFailed, collectObs, resolveObs,
                    provObs, insertAttempts, failedInsert, logoutCalls,
                    abortedAt,
                    callObs >>

\* lines 246-247: driver.logout()
Logout ==
    /\ pc = "logout"
    /\ logoutCalls' = logoutCalls + 1
    /\ pc' \in {"done", "aborted"}            \* the call may raise
    /\ NoteAbort
    /\ UNCHANGED << run, clock, BATCH_SIZE, collectVars, resolveVars,
                    processed_count, dbVars, collectObs, resolveObs, provObs,
                    writeObs,
                    callObs >>

\* the script is started again (line 250) on the database the last run left
Restart ==
    /\ pc \in {"done", "aborted"}
    /\ run < MaxRuns
    /\ run' = run + 1
    /\ clock' = run * Period
    /\ pc' = "login"
    /\ teams' = << >> /\ now' = -1 /\ ti' = 1 /\ ci' = 1 /\ channels' = << >>
    /\ page' = 0 /\ all_members' = << >>
    /\ all_user_ids_globally' = {} /\ records_to_process_later' = << >>
    /\ statuses_list' = EmptyMap
    /\ user_id_to_username' = EmptyMap /\ user_id_to_status' = EmptyMap
    /\ processed_count' = 0
    /\ tx' = db /\ txFailed' = FALSE /\ durable' = << >> /\ uncommitted' = << >>
    /\ failedTeams' = {} /\ failedChannels' = {}
    /\ statusCalls' = << >> /\ identityCalls' = << >>
    /\ provErrors' = {} /\ provResult' = "none" /\ provStart' = "none"
    /\ insertAttempts' = 0 /\ failedInsert' = 0 /\ writerCommits' = 0
    /\ enumCalls' = 0 /\ logoutCalls' = 0 /\ abortedAt' = "none"
    /\ fetches' = << >> /\ lastCall' = NoCall /\ undelayed' = {}
    /\ UNCHANGED << BATCH_SIZE, db >>

Next ==
    \/ Login \/ NextTeam \/ NextChannel \/ FetchPage \/ CollectChannel
    \/ ResolveStatus \/ ResolveUsers
    \/ Connect
    \/ ProvExtension \/ ProvTable \/ ProvHypertable \/ ProvCompress \/ ProvPolicy
    \/ Insert \/ FinishWrite \/ Logout
    \/ Restart

Spec == Init /\ [][Next]_vars

\* the steps of one invocation: main() is sequential code that keeps running
\* until it returns or an exception leaves it
Step ==
    \/ Login \/ NextTeam \/ NextChannel \/ FetchPage \/ CollectChannel
    \/ ResolveStatus \/ ResolveUsers
    \/ Connect
    \/ ProvExtension \/ ProvTable \/ ProvHypertable \/ ProvCompress \/ ProvPolicy
    \/ Insert \/ FinishWrite \/ Logout

FairSpec == Init /\ [][Next]_vars /\ WF_vars(Step)

\* the values a channel dict can have under 'display_name' and under 'name':
\* no such key, the empty string, a non-empty string
DisplayNames == {Absent, "", "Lobby"}
Names == {Absent, "", "lobby"}

\* main() at line 180 of the first run, when the channel list of team tA could
\* not be fetched and the one of team tB has just been returned, holding one
\* channel with any of the possible display_name / name combinations
NameInit ==
    /\ run = 1 /\ clock = 0 /\ BATCH_SIZE \in 1..MaxBatch
    /\ db = EmptySchema /\ tx = EmptySchema
    /\ pc = "channel_loop"
    /\ teams = Teams /\ now = 0 /\ ti = 2 /\ ci = 1
    /\ \E dn \in DisplayNames, nm \in Names :
           channels = << [id |-> "c3", display_name |-> dn, name |-> nm] >>
    /\ page = 0 /\ all_members = << >>
    /\ all_user_ids_globally = {} /\ records_to_process_later = << >>
    /\ statuses_list = EmptyMap
    /\ user_id_to_username = EmptyMap /\ user_id_to_status = EmptyMap
    /\ processed_count = 0
    /\ txFailed = FALSE /\ durable = << >> /\ uncommitted = << >>
    /\ failedTeams = {"tA"} /\ failedChannels = {}
    /\ statusCalls = << >> /\ identityCalls = << >>
    /\ provErrors = {} /\ provResult = "none" /\ provStart = "none"
    /\ insertAttempts = 0 /\ failedInsert = 0 /\ writerCommits = 0
    /\ enumCalls = 2 /\ logoutCalls = 0 /\ abortedAt = "none"
    /\ fetches = << >>
    /\ lastCall = [call |-> "channels", outcome |-> "ok", slept |-> FALSE]
    /\ undelayed = {<< "channels", "error", "channels" >>}

NameSpec == NameInit /\ [][Next]_vars

TypeOK ==
    /\ pc \in {"login", "team_loop", "channel_loop", "fetch", "collect",
               "resolve", "resolve_users", "connect", "prov_ext", "prov_table",
               "prov_hyper", "prov_compress", "prov_policy", "write", "logout",
               "done", "aborted"}
    /\ run \in 1..MaxRuns
    /\ BATCH_SIZE \in 1..MaxBatch
    /\ processed_count \in 0..Len(records_to_process_later)
    /\ all_user_ids_globally \subseteq UserIds

(* ======================= the claims ======================= *)

N == Len(records_to_process_later)

CeilDiv(a, b) == (a + b - 1) \div b

\* the rows the writer inserts for the collected records, in list order
AllRows == [i \in 1..N |-> Row(records_to_process_later[i])]

\* the write phase has run to its end without a failing INSERT
WriteCompleted == provResult = "returned" /\ pc \in {"logout", "done", "aborted"}
                  /\ failedInsert = 0

\* the collection loops of lines 169-200 are over
CollectionDone == teams # << >> /\ ti > Len(teams)

\* C1: with no failing INSERT the writer commits once after every B-th INSERT
\* and once more for a remainder, ceil(N/B) times in all and never for N = 0.
C1_CommitCount ==
    /\ pc = "write" =>
          /\ writerCommits = processed_count \div BATCH_SIZE
          /\ Len(durable) = BATCH_SIZE * writerCommits
          /\ Len(uncommitted) = processed_count % BATCH_SIZE
    /\ WriteCompleted =>
          /\ writerCommits = CeilDiv(N, BATCH_SIZE)
          /\ (N = 0 => writerCommits = 0)

C1_Witness ==
    /\ pc = "done" /\ N = 4 /\ BATCH_SIZE = 3 /\ writerCommits = 2

\* C2: at the end of the write phase either no INSERT failed and every record
\* is durable, or INSERT number k failed, the run is aborted and exactly the
\* first B * floor((k-1)/B) rows are durable.
C2_DurableRows ==
    /\ WriteCompleted => durable = AllRows
    /\ failedInsert > 0 =>
          /\ pc = "aborted" /\ abortedAt = "write"
          /\ failedInsert \in 1..N
          /\ uncommitted = << >>
          /\ durable = SubSeq(AllRows, 1,
                              BATCH_SIZE * ((failedInsert - 1) \div BATCH_SIZE))

C2_Witness ==
    /\ failedInsert = 4 /\ BATCH_SIZE = 3 /\ Len(durable) = 3 /\ pc = "aborted"

\* the user ids the server lists for a channel, over all its pages
ChannelMembers(channel_id) ==
    UNION {Range(ChannelPages(channel_id)[p]) :
               p \in 1..Len(ChannelPages(channel_id))}

RecordsOfChannel(channel_id) ==
    {i \in 1..N : records_to_process_later[i].channel_id = channel_id}

RecordsOfTeam(team_id) ==
    {i \in 1..N : records_to_process_later[i].team_id = team_id}

\* the channel contributed one record per member, carrying its team and name
ChannelFullyRecorded(team, channel) ==
    /\ Cardinality(RecordsOfChannel(channel.id)) =
           Cardinality(ChannelMembers(channel.id))
    /\ {records_to_process_later[i].user_id : i \in RecordsOfChannel(channel.id)}
           = ChannelMembers(channel.id)
    /\ \A i \in RecordsOfChannel(channel.id) :
           /\ records_to_process_later[i].team_id = team.id
           /\ records_to_process_later[i].team_name = team.name
           /\ records_to_process_later[i].channel_name = ChannelName(channel)

WrittenRows == Range(durable) \cup Range(uncommitted)

C4_TeamIsolation ==
    /\ \A id \in failedTeams : RecordsOfTeam(id) = {}
    /\ abortedAt \notin {"team_loop", "channel_loop", "fetch", "collect"}
    /\ CollectionDone =>
           \A t \in 1..Len(teams) :
               IF teams[t].id \in failedTeams
               THEN \A r \in WrittenRows : r.team_id # teams[t].id
               ELSE \A c \in 1..Len(TeamChannels(teams[t].id)) :
                       LET channel == TeamChannels(teams[t].id)[c] IN
                       channel.id \notin failedChannels =>
                           ChannelFullyRecorded(teams[t], channel)

C4_Witness ==
    /\ pc = "done" /\ failedTeams = {"tA"} /\ failedChannels = {}
    /\ Len(durable) = 2 /\ \A r \in Range(durable) : r.team_id = "tB"

LookupFailed ==
    \/ \E i \in 1..Len(statusCalls) : ~statusCalls[i].ok
    \/ \E i \in 1..Len(identityCalls) : ~identityCalls[i].ok

\* C5: when the status lookup or the identity lookup fails the run goes on,
\* both mappings are empty, every written row has username and status
\* "unknown", and a write phase that completes has inserted every record.
C5_ResolutionFailure ==
    LookupFailed =>
        /\ pc \notin {"resolve", "resolve_users"}
        /\ abortedAt \notin {"resolve", "resolve_users"}
        /\ user_id_to_username = EmptyMap
        /\ user_id_to_status = EmptyMap
        /\ \A r \in WrittenRows : r.username = "unknown" /\ r.status = "unknown"
        /\ WriteCompleted => (insertAttempts = N /\ Len(durable) = N)

C5_Witness ==
    /\ pc = "done" /\ Len(durable) = 4
    /\ Len(statusCalls) = 1 /\ statusCalls[1].ok
    /\ Len(identityCalls) = 1 /\ ~identityCalls[1].ok

\* the resolution block of lines 202-218 is over
ResolutionDone ==
    /\ CollectionDone
    /\ pc \notin {"team_loop", "resolve", "resolve_users"}
    /\ all_user_ids_globally # {} =>
           /\ Len(statusCalls) = 1
           /\ statusCalls[1].ok => Len(identityCalls) = 1

\* C6 as stated: provisioning is over before the first enumeration call,
\* collection before the first resolution call, resolution before the first INSERT.
C6_ProvisionFirst ==
    /\ enumCalls > 0 => provResult = "returned"
    /\ (statusCalls # << >> \/ identityCalls # << >>) => CollectionDone
    /\ insertAttempts > 0 => ResolutionDone

\* C6 (amended): the phases run in the order collect, resolve, provision,
\* write: collection is over before the first resolution call, resolution is
\* over before provisioning starts, and provisioning has returned before the
\* first INSERT.
C6_PhaseOrder ==
    /\ (statusCalls # << >> \/ identityCalls # << >>) => CollectionDone
    /\ provStart # "none" => ResolutionDone
    /\ provStart = "none" => (provResult = "none" /\ provErrors = {})
    /\ insertAttempts > 0 => (provResult = "returned" /\ ResolutionDone)
    /\ ~CollectionDone =>
           (statusCalls = << >> /\ identityCalls = << >> /\ provStart = "none"
            /\ insertAttempts = 0)

C6_Witness ==
    /\ pc = "done" /\ insertAttempts = 4 /\ Len(identityCalls) = 1 /\ enumCalls > 5

ProvPcs == {"prov_ext", "prov_table", "prov_hyper", "prov_compress", "prov_policy"}

FatalErrors == {"table", "hyper"}

\* C7: an error of the extension, compression-settings or compression-policy
\* statement is absorbed (provisioning returns and the writer starts), an error
\* of CREATE TABLE or a create_hypertable error other than "already a
\* hypertable" leaves provisioning, aborts the run, and no INSERT is executed.
C7_TieredProvisioning ==
    /\ provResult = "raised" <=> provErrors \cap FatalErrors # {}
    /\ provResult = "raised" =>
           /\ pc = "aborted" /\ abortedAt \in {"prov_table", "prov_hyper"}
           /\ insertAttempts = 0 /\ durable = << >> /\ uncommitted = << >>
    /\ abortedAt \notin {"prov_ext", "prov_compress", "prov_policy"}
    /\ (provStart # "none" /\ pc \notin ProvPcs /\ provErrors \cap FatalErrors = {})
           => provResult = "returned"
    /\ provResult = "returned" =>
           /\ pc \in {"write", "logout", "done", "aborted"}
           /\ pc = "aborted" => abortedAt \in {"write", "logout"}

C7_Witness ==
    /\ pc = "done" /\ Len(durable) > 0
    /\ provErrors = {"ext", "compress", "policy"}

FullSchema == [ext |-> TRUE, table |-> TRUE, hyper |-> TRUE,
               compress |-> TRUE, policies |-> 1]

\* C8: on the database a fully successful provisioning left, provisioning
\* again changes nothing in the committed schema, adds no second policy, and
\* returns normally unless CREATE TABLE or create_hypertable raises an error
\* other than "already a hypertable".
C8_Idempotent ==
    [][db = FullSchema =>
          /\ db' = FullSchema
          /\ tx'.policies <= 1
          /\ (pc \in ProvPcs /\ provErrors' \cap FatalErrors = {}) =>
                 /\ pc' \in ProvPcs \cup {AfterProvision}
                 /\ pc' = AfterProvision => provResult' = "returned"]_vars

C8_Witness ==
    /\ run = 2 /\ db = FullSchema /\ provResult = "returned"
    /\ {"hyper_already", "policy_already"} \subseteq provErrors

\* C9: every collected record and every written row carries the capture
\* instant, which is the time at which the run started, before any team was
\* processed.
C9_SingleTimestamp ==
    /\ teams # << >> => now = (run - 1) * Period
    /\ \A i \in 1..N : records_to_process_later[i].timestamp = now
    /\ \A r \in WrittenRows : r.timestamp = now

C9_Witness ==
    /\ pc = "done" /\ Len(durable) = 4 /\ clock >= now + 4
    /\ Cardinality({durable[i].channel_id : i \in 1..Len(durable)}) = 2

\* C10 as stated: with a non-empty user set there is exactly one status lookup
\* and exactly one identity lookup, each with all collected ids, whether or
\* not a call fails.
C10_BothLookupsAlways ==
    (ResolutionDone /\ all_user_ids_globally # {}) =>
        /\ Len(statusCalls) = 1 /\ statusCalls[1].ids = all_user_ids_globally
        /\ Len(identityCalls) = 1 /\ identityCalls[1].ids = all_user_ids_globally

\* C10 (amended): with a non-empty user set there is exactly one status
\* lookup, with all collected ids; the identity lookup is made exactly once,
\* with all collected ids, when the status lookup succeeds and not at all
\* when it fails.  With an empty user set neither lookup is made.
C10_LookupCalls ==
    /\ Len(statusCalls) <= 1 /\ Len(identityCalls) <= 1
    /\ \A i \in 1..Len(statusCalls) : statusCalls[i].ids = all_user_ids_globally
    /\ \A i \in 1..Len(identityCalls) :
           identityCalls[i].ids = all_user_ids_globally
    /\ (CollectionDone /\ pc \notin {"team_loop", "resolve", "resolve_users"}) =>
           IF all_user_ids_globally = {}
           THEN statusCalls = << >> /\ identityCalls = << >>
           ELSE /\ Len(statusCalls) = 1
                /\ Len(identityCalls) = IF statusCalls[1].ok THEN 1 ELSE 0

C10_Witness ==
    /\ pc = "connect" /\ all_user_ids_globally = UserIds
    /\ Len(statusCalls) = 1 /\ statusCalls[1].ok
    /\ Len(identityCalls) = 1 /\ ~identityCalls[1].ok

RECURSIVE Flatten(_)
\* the concatenation of a sequence of batches
Flatten(batches) ==
    IF batches = << >> THEN << >>
    ELSE Head(batches) \o Flatten(Tail(batches))

\* C11: for a channel with k non-empty pages the paginator fetches the page
\* indices 0, 1, ..., k in this order, each with page size 200, makes no fetch
\* after the first empty batch, and returns the k batches concatenated.
C11_Paginator ==
    /\ \A i \in 1..Len(fetches) : fetches[i] = [page |-> i - 1, per_page |-> 200]
    /\ pc = "fetch" =>
           /\ Len(fetches) = page
           /\ page <= Len(ChannelPages(channels[ci].id))
           /\ all_members =
                  Flatten(SubSeq(ChannelPages(channels[ci].id), 1, page))
    /\ pc = "collect" =>
           /\ Len(fetches) = Len(ChannelPages(channels[ci].id)) + 1
           /\ ServerPage(channels[ci].id, fetches[Len(fetches)].page) = << >>
           /\ \A i \in 1..(Len(fetches) - 1) :
                  ServerPage(channels[ci].id, fetches[i].page) # << >>
           /\ all_members = Flatten(ChannelPages(channels[ci].id))

C11_Witness ==
    /\ pc = "collect" /\ channels[ci].id = "c1"
    /\ Len(fetches) = 3 /\ all_members = << "u1", "u2", "u2" >>

\* the ids of the channels whose member enumeration returned normally
EnumeratedChannels ==
    UNION {{TeamChannels(teams[t].id)[c].id :
                c \in 1..Len(TeamChannels(teams[t].id))} :
           t \in {t \in 1..Len(teams) : teams[t].id \notin failedTeams}}
    \ failedChannels

RecordsOfUser(user_id) ==
    {i \in 1..N : records_to_process_later[i].user_id = user_id}

\* C12: a channel never has two records for one user id; when collection is
\* over, every enumerated channel has exactly one record per distinct member
\* (none, and no error, for an empty channel), so that a user has as many
\* records as there are enumerated channels listing that user.
C12_OneRecordPerMember ==
    /\ \A i, j \in 1..N :
           (/\ records_to_process_later[i].channel_id =
                   records_to_process_later[j].channel_id
            /\ records_to_process_later[i].user_id =
                   records_to_process_later[j].user_id) => i = j
    /\ CollectionDone =>
           /\ \A c \in EnumeratedChannels :
                  {records_to_process_later[i].user_id : i \in RecordsOfChannel(c)}
                      = ChannelMembers(c)
           /\ \A u \in UserIds :
                  Cardinality(RecordsOfUser(u)) =
                      Cardinality({c \in EnumeratedChannels : u \in ChannelMembers(c)})

C12_Witness ==
    /\ pc = "done" /\ failedTeams = {} /\ failedChannels = {}
    /\ N = 4 /\ Cardinality(RecordsOfUser("u2")) = 2
    /\ "c2" \in EnumeratedChannels /\ RecordsOfChannel("c2") = {}

BothLookupsSucceeded ==
    /\ Len(statusCalls) = 1 /\ statusCalls[1].ok
    /\ Len(identityCalls) = 1 /\ identityCalls[1].ok

\* C13: when both lookups succeed, a row has the username the identity result
\* gives for its user and "unknown" when the result omits that user, likewise
\* for the status; an omitted user does not keep any record from being written.
C13_MissingEntries ==
    BothLookupsSucceeded =>
        /\ \A r \in WrittenRows :
               /\ r.username = IF r.user_id \in DOMAIN UsersDirectory
                               THEN UsersDirectory[r.user_id] ELSE "unknown"
               /\ r.status = IF r.user_id \in DOMAIN StatusDirectory
                             THEN StatusDirectory[r.user_id] ELSE "unknown"
        /\ WriteCompleted =>
               /\ Len(durable) = N
               /\ \A i \in 1..N :
                      durable[i].user_id = records_to_process_later[i].user_id

C13_Witness ==
    /\ pc = "done" /\ BothLookupsSucceeded /\ Len(durable) = 4
    /\ \E r \in Range(durable) :
           r.user_id = "u2" /\ r.username = "unknown" /\ r.status = "away"
    /\ \E r \in Range(durable) :
           r.user_id = "u3" /\ r.username = "carol" /\ r.status = "unknown"
    /\ \E r \in Range(durable) :
           r.user_id = "u1" /\ r.username = "alice" /\ r.status = "online"

\* C14 as stated: between any two consecutive chat-platform calls of the
\* collection and resolution phases at least one delay occurs.
C14_DelayBetweenAllCalls == undelayed = {}

\* C14 (amended): the calls are issued one at a time, and a delay follows
\* exactly the member-page fetches that return a non-empty batch and a
\* successful status lookup: two consecutive page fetches of one channel, and
\* the two bulk lookups, are separated by a delay, whereas the call after a
\* channel-list call, after a terminal empty page or after a failed fetch is
\* issued without one.
C14_DelayAfterPagesAndStatus ==
    /\ lastCall.call # "none" =>
           (lastCall.slept <=>
               \/ (lastCall.call = "page" /\ lastCall.outcome = "full")
               \/ (lastCall.call = "status" /\ lastCall.outcome = "ok"))
    /\ \A p \in undelayed :
           << p[1], p[2] >> \in {<< "channels", "ok" >>, << "channels", "error" >>,
                                 << "page", "empty" >>, << "page", "error" >>}
    /\ (pc = "fetch" /\ page > 0) => lastCall.slept
    /\ pc = "resolve_users" => lastCall.slept

C14_Witness ==
    /\ pc = "done" /\ Len(identityCalls) = 1
    /\ undelayed = {<< "channels", "ok", "page" >>, << "page", "empty", "page" >>,
                    << "page", "empty", "channels" >>,
                    << "page", "empty", "status" >>}

\* C15: whenever provisioning has returned normally the table exists in the
\* committed database, and the rollback of a failing compression step leaves
\* the table created earlier in the same call in the transaction.
C15_TableAfterProvisioning ==
    /\ provResult = "returned" => db.table
    /\ (pc = "prov_policy" /\ "compress" \in provErrors) => tx.table

\* C16: the rows inserted and not yet committed never number more than B,
\* there is none right after a batch commit, and an abort of the write phase
\* loses at most B inserted rows.
C16_OpenBatchBound ==
    /\ Len(uncommitted) <= BATCH_SIZE
    /\ pc = "write" =>
           /\ Len(durable) + Len(uncommitted) = processed_count
           /\ Len(uncommitted) = processed_count % BATCH_SIZE
           /\ processed_count % BATCH_SIZE = 0 => uncommitted = << >>
    /\ abortedAt = "write" =>
           /\ processed_count = failedInsert - 1
           /\ processed_count - Len(durable) <= BATCH_SIZE

C16_Witness ==
    /\ abortedAt = "write" /\ BATCH_SIZE = 3 /\ failedInsert = 3
    /\ processed_count = 2 /\ durable = << >>

Terminated == pc \in {"done", "aborted"}

\* C17: with finitely many teams and channels and a member listing that
\* answers an empty batch at some page of every channel, every run reaches a
\* terminal state (finished, or aborted by an error).
C17_Termination ==
    \A r \in 1..MaxRuns : [](run = r => <>(run = r /\ Terminated))

C17_Witness ==
    /\ run = 2 /\ pc = "done" /\ enumCalls = 8 /\ failedChannels = {}
    /\ Len(durable) = 4

\* the channel name C18 states: display_name when non-empty, otherwise name
\* when non-empty, otherwise "unknown"
StatedChannelName(channel) ==
    IF channel.display_name \notin {Absent, ""} THEN channel.display_name
    ELSE IF channel.name \notin {Absent, ""} THEN channel.name
    ELSE "unknown"

\* C18: for every combination of display_name and name being a non-empty
\* string, empty or absent, the channel name of a record is display_name when
\* non-empty, otherwise name when non-empty, otherwise "unknown", and it is
\* never empty.
C18_ChannelName ==
    \A i \in 1..N : \A c \in 1..Len(channels) :
        records_to_process_later[i].channel_id = channels[c].id =>
            /\ records_to_process_later[i].channel_name =
                   StatedChannelName(channels[c])
            /\ records_to_process_later[i].channel_name \notin {"", Absent}

\* C19: the global user-id set is exactly the set of user ids occurring in the
\* collected records, and when collection is over it is the union of the
\* members of the channels whose enumeration returned: ids seen only in a
\* failed channel, or on pages fetched before a channel's failure, are in
\* neither.
C19_GlobalUserSet ==
    /\ all_user_ids_globally =
           {records_to_process_later[i].user_id : i \in 1..N}
    /\ CollectionDone =>
           all_user_ids_globally =
               UNION {ChannelMembers(c) : c \in EnumeratedChannels}

\* channel c1 failed on its second page, after u1 and u2 had been fetched: u1,
\* listed nowhere else, is in neither the set nor the records
C19_Witness ==
    /\ CollectionDone /\ failedChannels = {"c1"} /\ failedTeams = {}
    /\ enumCalls = 7
    /\ all_user_ids_globally = {"u2", "u3"}
    /\ RecordsOfUser("u1") = {}

\* C20: logout is called at most once, and it has been called exactly when the
\* run got past the write phase with no error raised before line 246; by then
\* provisioning has returned, every record is inserted and committed and no
\* commit follows. A run that login, the connection, provisioning or an INSERT
\* aborted ends without a logout call.
C20_LogoutOnSuccess ==
    /\ logoutCalls <= 1
    /\ logoutCalls = 1 <=>
           \/ pc = "done"
           \/ pc = "aborted" /\ abortedAt = "logout"
    /\ Terminated => (logoutCalls = 1 <=> abortedAt \in {"none", "logout"})
    /\ logoutCalls = 1 =>
           /\ provResult = "returned" /\ failedInsert = 0
           /\ processed_count = N
           /\ uncommitted = << >> /\ Len(durable) = N
           /\ writerCommits = CeilDiv(N, BATCH_SIZE)
    /\ (abortedAt \in ProvPcs \cup {"login", "connect", "write"}
            \/ failedInsert # 0) => logoutCalls = 0

C20_Witness ==
    /\ pc = "done" /\ logoutCalls = 1 /\ abortedAt = "none"
    /\ BATCH_SIZE = 3 /\ Len(durable) = 4 /\ writerCommits = 2

====
